---- MODULE Spec2Model ----
(***************************************************************************)
(* Model of app.py: the voice-translation pipeline (transcribe_audio,      *)
(* detect_language, translate_text, text_to_speech, pipeline_translate)    *)
(* and the Streamlit button handler that displays its result.              *)
(*                                                                         *)
(* A Python string is a sequence of tokens.  The tokens are the characters *)
(* "a", "A" and " " and a few multi-character words that the code only     *)
(* ever handles as a whole (the error tags, fixed messages, language       *)
(* codes, a file path).  Python's None is the one-token sequence None.     *)
(***************************************************************************)
EXTENDS Integers, Sequences, FiniteSets, TLC

\* Longest body of a text an external service hands back.
MaxLen == 2

----------------------------------------------------------------------------
\* Tokens and strings

TR == "[Transcription error]"
TE == "[Translation error]"
TT == "[TTS error]"
ER == "[Error]"

Tags == {TR, TE, TT, ER}
Chars == {"a", "A", " "}

None == <<"<None>">>
NoResult == <<"<no result>">>

NoAudioMsg == <<ER, " ", "No audio input">>
EmptyInputMsg == <<TE, " ", "Empty input text">>
NoneAttrMsg == <<"'NoneType' object has no attribute">>
Mp3Path == <<"/tmp/tmpXXXX.mp3">>
Clip == <<"<uploaded file>">>

Hints == {<<"auto">>, <<"en">>, <<"ur">>, <<"fr">>, <<"es">>, <<"de">>, <<"ar">>}
Langs == Hints \ {<<"auto">>}

RECURSIVE Str(_)
Str(n) == IF n = 0 THEN {<<>>}
          ELSE LET S == Str(n - 1)
               IN S \cup {Append(s, c) : s \in {x \in S : Len(x) = n - 1}, c \in Chars}

\* Texts an external service may hand back: plain text, or text that
\* happens to begin with one of the tags.
Texts == Str(MaxLen) \cup {<<t>> \o s : t \in Tags, s \in Str(MaxLen)}

\* Messages carried by the exceptions the collaborators raise.
Msgs == {<<>>, <<"a">>}

RECURSIVE LStrip(_)
LStrip(s) == IF s # <<>> /\ Head(s) = " " THEN LStrip(Tail(s)) ELSE s

RECURSIVE RStrip(_)
RStrip(s) == IF s # <<>> /\ s[Len(s)] = " " THEN RStrip(SubSeq(s, 1, Len(s) - 1)) ELSE s

\* str.strip()
Strip(s) == RStrip(LStrip(s))

LowerTok(c) == CASE c = "A" -> "a"
                 [] c = TR -> "[transcription error]"
                 [] c = TE -> "[translation error]"
                 [] c = TT -> "[tts error]"
                 [] c = ER -> "[error]"
                 [] OTHER -> c

\* str.lower()
Lower(s) == [i \in 1..Len(s) |-> LowerTok(s[i])]

\* str.startswith(tag)
StartsWith(s, tag) == s # <<>> /\ s[1] = tag

\* tag in s
Contains(s, tag) == \E i \in 1..Len(s) : s[i] = tag

\* f"[tag] {e}"
Sentinel(tag, msg) == <<tag, " ">> \o msg

----------------------------------------------------------------------------
\* State

VARIABLES
    pc,            \* position of the button handler / pipeline_translate
    audio_file,    \* the uploaded file, or None
    hint,          \* target_lang chosen in the select box
    target,        \* pipeline_translate's local target_lang_hint
    transcribed, detected, translated, audio_output,
    ret,           \* the 4-tuple pipeline_translate returned, or NoResult
    trace,         \* calls and returns of the four stages in this run
    mp3Created,    \* text_to_speech created its temporary .mp3 file
    s_text, s_lang,            \* arguments text_to_speech was called with
    tpc,           \* position inside translate_text
    t_text, t_dest,            \* arguments of translate_text
    t_translated,  \* translate_text's local `translated`
    t_ret,         \* value translate_text returned
    calls,         \* calls of translator.translate in this translate_text
    sleeps,        \* calls of time.sleep in this translate_text
    firstResult, lastResult,   \* what the first / the last remote call returned
    banner, shown, warning, player   \* what the page displays

pvars == <<pc, audio_file, hint, target, transcribed, detected, translated,
           audio_output, ret, trace, mp3Created, s_text, s_lang>>
tvars == <<tpc, t_text, t_dest, t_translated, t_ret, calls, sleeps,
           firstResult, lastResult>>
uvars == <<banner, shown, warning, player>>
vars == <<pvars, tvars, uvars>>

Call(st) == [ev |-> "call", st |-> st]
Ret(st) == [ev |-> "ret", st |-> st]

TFrameInit ==
    /\ t_translated = None /\ t_ret = NoResult
    /\ calls = 0 /\ sleeps = 0
    /\ firstResult = NoResult /\ lastResult = NoResult

PFrameInit ==
    /\ pc = "idle" /\ audio_file = None /\ hint = <<"auto">> /\ target = <<"auto">>
    /\ transcribed = None /\ detected = None /\ translated = None
    /\ audio_output = None /\ ret = NoResult /\ trace = <<>>
    /\ mp3Created = FALSE /\ s_text = None /\ s_lang = None
    /\ banner = "none" /\ shown = None /\ warning = FALSE /\ player = FALSE

Init ==
    /\ PFrameInit
    /\ tpc = "none" /\ t_text = None /\ t_dest = None
    /\ TFrameInit

----------------------------------------------------------------------------
\* translate_text(text, dest_lang)

\* What translator.translate may return for `text`.
RemoteTexts(text) ==
    {text, Lower(text), <<" ">> \o text,
     <<>>, <<"a">>, <<"A">>, <<TE>>, <<TE, " ", "a">>, <<TT, " ", "a">>}

TReturn(v) ==
    /\ t_ret' = v
    /\ tpc' = "returned"

\* translate_text testing `not text` instead of `not text.strip()`.
T_Entry_NoStrip ==
    /\ tpc = "entry"
    /\ IF t_text = <<>>
       THEN TReturn(EmptyInputMsg)
       ELSE tpc' = "l51" /\ t_ret' = t_ret
    /\ UNCHANGED <<t_text, t_dest, t_translated, calls, sleeps, firstResult, lastResult>>
    /\ UNCHANGED <<pvars, uvars>>

T_Entry ==
    /\ tpc = "entry"
    /\ IF Strip(t_text) = <<>>
       THEN TReturn(EmptyInputMsg)
       ELSE tpc' = "l51" /\ t_ret' = t_ret
    /\ UNCHANGED <<t_text, t_dest, t_translated, calls, sleeps, firstResult, lastResult>>
    /\ UNCHANGED <<pvars, uvars>>

T_Construct ==
    /\ tpc = "l51"
    /\ \/ tpc' = "l52" /\ t_ret' = t_ret
       \/ \E m \in Msgs : TReturn(Sentinel(TE, m))
    /\ UNCHANGED <<t_text, t_dest, t_translated, calls, sleeps, firstResult, lastResult>>
    /\ UNCHANGED <<pvars, uvars>>

T_Call1 ==
    /\ tpc = "l52"
    /\ calls' = calls + 1
    /\ \/ \E r \in RemoteTexts(t_text) \cup {None} :
            /\ t_translated' = r
            /\ firstResult' = r /\ lastResult' = r
            /\ tpc' = "l53" /\ t_ret' = t_ret
       \/ \E m \in Msgs :
            /\ TReturn(Sentinel(TE, m))
            /\ UNCHANGED <<t_translated, firstResult, lastResult>>
    /\ UNCHANGED <<t_text, t_dest, sleeps>>
    /\ UNCHANGED <<pvars, uvars>>

T_Compare ==
    /\ tpc = "l53"
    /\ IF t_translated = None
       THEN TReturn(Sentinel(TE, NoneAttrMsg)) /\ sleeps' = sleeps
       ELSE IF Lower(Strip(t_translated)) = Lower(Strip(t_text))
            THEN tpc' = "l55" /\ sleeps' = sleeps + 1 /\ t_ret' = t_ret
            ELSE TReturn(t_translated) /\ sleeps' = sleeps
    /\ UNCHANGED <<t_text, t_dest, t_translated, calls, firstResult, lastResult>>
    /\ UNCHANGED <<pvars, uvars>>

T_Retry ==
    /\ tpc = "l55"
    /\ calls' = calls + 1
    /\ \/ \E r \in RemoteTexts(t_text) \cup {None} :
            /\ t_translated' = r
            /\ lastResult' = r
            /\ TReturn(r)
       \/ \E m \in Msgs :
            /\ TReturn(Sentinel(TE, m))
            /\ lastResult' = NoResult
            /\ UNCHANGED t_translated
    /\ UNCHANGED <<t_text, t_dest, sleeps, firstResult>>
    /\ UNCHANGED <<pvars, uvars>>

----------------------------------------------------------------------------
\* The three other stages

\* transcribe_audio(audio_path)
transcribe_audio ==
    /\ pc = "in_transcribe"
    /\ \/ \E r \in Texts : transcribed' = Strip(r)
       \/ transcribed' = Sentinel(TR, NoneAttrMsg)
       \/ \E m \in Msgs : transcribed' = Sentinel(TR, m)
    /\ trace' = Append(trace, Ret("transcribe_audio"))
    /\ pc' = "l84"
    /\ UNCHANGED <<audio_file, hint, target, detected, translated, audio_output,
                   ret, mp3Created, s_text, s_lang>>
    /\ UNCHANGED <<tvars, uvars>>

\* What langdetect's detect may return.
DetectOut == {<<"en">>, <<"fr">>}

\* detect_language(text)
detect_language ==
    /\ pc = "in_detect"
    /\ \/ \E l \in DetectOut : detected' = l
       \/ detected' = <<"unknown">>
    /\ trace' = Append(trace, Ret("detect_language"))
    /\ pc' = "l88"
    /\ UNCHANGED <<audio_file, hint, target, transcribed, translated, audio_output,
                   ret, mp3Created, s_text, s_lang>>
    /\ UNCHANGED <<tvars, uvars>>

\* text_to_speech(text, lang)
text_to_speech ==
    /\ pc = "in_tts"
    /\ \/ audio_output' = Mp3Path /\ mp3Created' = TRUE
       \/ \E m \in Msgs : audio_output' = Sentinel(TT, m) /\ mp3Created' = FALSE
       \/ \E m \in Msgs : audio_output' = Sentinel(TT, m) /\ mp3Created' = TRUE
    /\ trace' = Append(trace, Ret("text_to_speech"))
    /\ pc' = "l99"
    /\ UNCHANGED <<audio_file, hint, target, transcribed, detected, translated,
                   ret, s_text, s_lang>>
    /\ UNCHANGED <<tvars, uvars>>

----------------------------------------------------------------------------
\* pipeline_translate(audio_file, target_lang_hint)

PReturn(a, b, c, d) ==
    /\ ret' = <<a, b, c, d>>
    /\ pc' = "returned"

\* The button is pressed: the handler calls pipeline_translate.
Click ==
    /\ pc = "idle"
    /\ \E a \in {None, Clip} : audio_file' = a
    /\ \E h \in Hints : hint' = h /\ target' = h
    /\ pc' = "l76"
    /\ transcribed' = None /\ detected' = None /\ translated' = None
    /\ audio_output' = None /\ ret' = NoResult /\ trace' = <<>>
    /\ mp3Created' = FALSE /\ s_text' = None /\ s_lang' = None
    /\ tpc' = "none" /\ t_text' = None /\ t_dest' = None
    /\ t_translated' = None /\ t_ret' = NoResult
    /\ calls' = 0 /\ sleeps' = 0
    /\ firstResult' = NoResult /\ lastResult' = NoResult
    /\ banner' = "none" /\ shown' = None /\ warning' = FALSE /\ player' = FALSE

\* pipeline_translate without the no-audio guard.
PT_Guard_NoGuard ==
    /\ pc = "l76"
    /\ pc' = "in_transcribe"
    /\ trace' = Append(trace, Call("transcribe_audio"))
    /\ UNCHANGED <<audio_file, hint, target, transcribed, detected, translated,
                   audio_output, ret, mp3Created, s_text, s_lang>>
    /\ UNCHANGED <<tvars, uvars>>

PT_Guard ==
    /\ pc = "l76"
    /\ IF audio_file = None
       THEN PReturn(NoAudioMsg, None, None, None) /\ trace' = trace
       ELSE /\ pc' = "in_transcribe"
            /\ trace' = Append(trace, Call("transcribe_audio"))
            /\ ret' = ret
    /\ UNCHANGED <<audio_file, hint, target, transcribed, detected, translated,
                   audio_output, mp3Created, s_text, s_lang>>
    /\ UNCHANGED <<tvars, uvars>>

\* pipeline_translate without the transcription-error gate.
PT_Gate1_NoGate ==
    /\ pc = "l84"
    /\ pc' = "in_detect"
    /\ trace' = Append(trace, Call("detect_language"))
    /\ UNCHANGED <<audio_file, hint, target, transcribed, detected, translated,
                   audio_output, ret, mp3Created, s_text, s_lang>>
    /\ UNCHANGED <<tvars, uvars>>

PT_Gate1 ==
    /\ pc = "l84"
    /\ IF StartsWith(transcribed, TR)
       THEN PReturn(transcribed, None, None, None) /\ trace' = trace
       ELSE /\ pc' = "in_detect"
            /\ trace' = Append(trace, Call("detect_language"))
            /\ ret' = ret
    /\ UNCHANGED <<audio_file, hint, target, transcribed, detected, translated,
                   audio_output, mp3Created, s_text, s_lang>>
    /\ UNCHANGED <<tvars, uvars>>

\* The fallback with its two branches exchanged.
AutoTarget_Swapped(d) == IF d = <<"en">> THEN <<"en">> ELSE <<"ur">>

\* "ur" if detected == "en" else "en"
AutoTarget(d) == IF d = <<"en">> THEN <<"ur">> ELSE <<"en">>

ResolveTarget(h, d) == IF h = <<"auto">> THEN AutoTarget(d) ELSE h

PT_Resolve ==
    /\ pc = "l88"
    /\ target' = ResolveTarget(target, detected)
    /\ translated' = transcribed
    /\ pc' = "l92"
    /\ UNCHANGED <<audio_file, hint, transcribed, detected, audio_output, ret,
                   trace, mp3Created, s_text, s_lang>>
    /\ UNCHANGED <<tvars, uvars>>

\* pipeline_translate calling translate_text whatever the languages are.
PT_Translate_Always ==
    /\ pc = "l92"
    /\ pc' = "in_translate"
    /\ trace' = Append(trace, Call("translate_text"))
    /\ tpc' = "entry"
    /\ t_text' = transcribed
    /\ t_dest' = target
    /\ UNCHANGED <<audio_file, hint, target, transcribed, detected, translated,
                   audio_output, ret, mp3Created, s_text, s_lang>>
    /\ UNCHANGED <<t_translated, t_ret, calls, sleeps, firstResult, lastResult>>
    /\ UNCHANGED uvars

PT_Translate ==
    /\ pc = "l92"
    /\ IF target # detected
       THEN /\ pc' = "in_translate"
            /\ trace' = Append(trace, Call("translate_text"))
            /\ tpc' = "entry"
            /\ t_text' = transcribed
            /\ t_dest' = target
       ELSE /\ pc' = "l95"
            /\ UNCHANGED <<trace, tpc, t_text, t_dest>>
    /\ UNCHANGED <<audio_file, hint, target, transcribed, detected, translated,
                   audio_output, ret, mp3Created, s_text, s_lang>>
    /\ UNCHANGED <<t_translated, t_ret, calls, sleeps, firstResult, lastResult>>
    /\ UNCHANGED uvars

PT_Translated ==
    /\ pc = "in_translate"
    /\ tpc = "returned"
    /\ translated' = t_ret
    /\ trace' = Append(trace, Ret("translate_text"))
    /\ pc' = "l95"
    /\ UNCHANGED <<audio_file, hint, target, transcribed, detected, audio_output,
                   ret, mp3Created, s_text, s_lang>>
    /\ UNCHANGED <<tvars, uvars>>

\* pipeline_translate without the translation-error gate.
PT_Gate3_NoGate ==
    /\ pc = "l95"
    /\ IF translated = None
       THEN /\ pc' = "raised"
            /\ UNCHANGED <<ret, trace, s_text, s_lang>>
       ELSE /\ pc' = "in_tts"
            /\ trace' = Append(trace, Call("text_to_speech"))
            /\ s_text' = translated
            /\ s_lang' = target
            /\ ret' = ret
    /\ UNCHANGED <<audio_file, hint, target, transcribed, detected, translated,
                   audio_output, mp3Created>>
    /\ UNCHANGED <<tvars, uvars>>

PT_Gate3 ==
    /\ pc = "l95"
    /\ IF translated = None
       THEN /\ pc' = "raised"
            /\ UNCHANGED <<ret, trace, s_text, s_lang>>
       ELSE IF StartsWith(translated, TE)
            THEN /\ PReturn(transcribed, detected, translated, None)
                 /\ UNCHANGED <<trace, s_text, s_lang>>
            ELSE /\ pc' = "in_tts"
                 /\ trace' = Append(trace, Call("text_to_speech"))
                 /\ s_text' = translated
                 /\ s_lang' = target
                 /\ ret' = ret
    /\ UNCHANGED <<audio_file, hint, target, transcribed, detected, translated,
                   audio_output, mp3Created>>
    /\ UNCHANGED <<tvars, uvars>>

\* pipeline_translate returning whatever text_to_speech returned.
PT_Gate4_Surface ==
    /\ pc = "l99"
    /\ PReturn(transcribed, detected, translated, audio_output)
    /\ UNCHANGED <<audio_file, hint, target, transcribed, detected, translated,
                   audio_output, trace, mp3Created, s_text, s_lang>>
    /\ UNCHANGED <<tvars, uvars>>

PT_Gate4 ==
    /\ pc = "l99"
    /\ IF StartsWith(audio_output, TT)
       THEN PReturn(transcribed, detected, translated, None)
       ELSE PReturn(transcribed, detected, translated, audio_output)
    /\ UNCHANGED <<audio_file, hint, target, transcribed, detected, translated,
                   audio_output, trace, mp3Created, s_text, s_lang>>
    /\ UNCHANGED <<tvars, uvars>>

----------------------------------------------------------------------------
\* The button handler, after pipeline_translate

Display ==
    /\ pc = "returned"
    /\ IF Contains(ret[1], ER) \/ StartsWith(ret[1], TR)
       THEN /\ banner' = "error"
            /\ shown' = ret[1]
            /\ warning' = FALSE /\ player' = FALSE
       ELSE /\ banner' = "success"
            /\ shown' = None
            /\ IF ret[4] # None /\ mp3Created
               THEN player' = TRUE /\ warning' = FALSE
               ELSE player' = FALSE /\ warning' = TRUE
    /\ pc' = "idle"
    /\ UNCHANGED <<audio_file, hint, target, transcribed, detected, translated,
                   audio_output, ret, trace, mp3Created, s_text, s_lang>>
    /\ UNCHANGED tvars

\* pipeline_translate raised: the handler has no try, the script run ends
\* with the exception and neither banner is drawn.
Uncaught ==
    /\ pc = "raised"
    /\ banner' = "exception"
    /\ pc' = "idle"
    /\ UNCHANGED <<shown, warning, player>>
    /\ UNCHANGED <<audio_file, hint, target, transcribed, detected, translated,
                   audio_output, ret, trace, mp3Created, s_text, s_lang>>
    /\ UNCHANGED tvars

----------------------------------------------------------------------------
\* Specifications

Next ==
    \/ Click
    \/ PT_Guard \/ PT_Gate1 \/ PT_Resolve \/ PT_Translate \/ PT_Translated
    \/ PT_Gate3 \/ PT_Gate4
    \/ transcribe_audio \/ detect_language \/ text_to_speech
    \/ T_Entry \/ T_Construct \/ T_Call1 \/ T_Compare \/ T_Retry
    \/ Display \/ Uncaught

Spec == Init /\ [][Next]_vars

\* translate_text called on its own, with any text and destination.
InitT ==
    /\ PFrameInit
    /\ tpc = "entry"
    /\ t_text \in Texts
    /\ t_dest \in Langs
    /\ TFrameInit

NextT == T_Entry \/ T_Construct \/ T_Call1 \/ T_Compare \/ T_Retry

SpecT == InitT /\ [][NextT]_vars

TypeOK ==
    /\ pc \in {"idle", "l76", "in_transcribe", "l84", "in_detect", "l88", "l92",
               "in_translate", "l95", "in_tts", "l99", "returned", "raised"}
    /\ tpc \in {"none", "entry", "l51", "l52", "l53", "l55", "returned"}
    /\ calls \in 0..2 /\ sleeps \in 0..1

----------------------------------------------------------------------------
\* Vocabulary of the properties

Called(st) == \E i \in 1..Len(trace) : trace[i] = Call(st)
Returned(st) == \E i \in 1..Len(trace) : trace[i] = Ret(st)

\* sub occurs in s as a contiguous piece
Occurs(sub, s) ==
    \E i \in 0..(Len(s) - Len(sub)) : SubSeq(s, i + 1, i + Len(sub)) = sub

StageIdx(st) == CASE st = "transcribe_audio" -> 1
                  [] st = "detect_language" -> 2
                  [] st = "translate_text" -> 3
                  [] st = "text_to_speech" -> 4

\* pipeline_translate has returned its tuple (and the page may show it).
HasReturned == pc = "returned" \/ (pc = "idle" /\ banner \in {"error", "success"})

\* The target language has been resolved (line 89 is behind).
Resolved == Returned("detect_language") /\ pc # "l88"

TranscribeFailed == Returned("transcribe_audio") /\ StartsWith(transcribed, TR)
TranscribeOK == Returned("transcribe_audio") /\ ~StartsWith(transcribed, TR)
TranslateFailed == Returned("translate_text") /\ StartsWith(t_ret, TE)
TTSFailed == Returned("text_to_speech") /\ StartsWith(audio_output, TT)

\* The text stage 3 produced: translate_text's value, or the transcript
\* when translation was skipped.
Stage3Text == IF Called("translate_text") THEN t_ret ELSE transcribed

----------------------------------------------------------------------------
\* C1: when the Transcriber returns a string starting with
\* "[Transcription error]", pipeline_translate returns
\* (that string, None, None, None) and invokes neither detect_language,
\* translate_text nor text_to_speech.
C1_TranscriptionFailureShortCircuits ==
    TranscribeFailed =>
        /\ pc \in {"l84", "returned", "idle"}
        /\ ~Called("detect_language")
        /\ ~Called("translate_text") /\ tpc = "none" /\ calls = 0
        /\ ~Called("text_to_speech") /\ ~mp3Created
        /\ pc # "l84" => ret = <<transcribed, None, None, None>>

C1_Witness ==
    /\ pc = "returned" /\ audio_file = Clip /\ TranscribeFailed
    /\ ret[1] = Sentinel(TR, <<"a">>)

\* C2: with hint "auto" the resolved target is "ur" when "en" was detected
\* and "en" for every other detected value, "unknown" included; with any
\* other hint the resolved target is the hint, whatever was detected.
C2_TargetResolution ==
    Resolved =>
        /\ (hint = <<"auto">> /\ detected = <<"en">>) => target = <<"ur">>
        /\ (hint = <<"auto">> /\ detected # <<"en">>) => target = <<"en">>
        /\ hint # <<"auto">> => target = hint
        /\ Called("translate_text") => t_dest = target
        /\ Called("text_to_speech") => s_lang = target

C2_Witness ==
    /\ Resolved /\ hint = <<"auto">> /\ detected = <<"unknown">>
    /\ target = <<"en">> /\ Called("text_to_speech")

\* C3: translate_text is invoked if and only if transcription succeeded and
\* the resolved target differs from the detected language; when they are
\* equal it is never invoked and the third element of the result, and the
\* text handed to text_to_speech, is the transcript unchanged.
C3_TranslateIffTargetDiffers ==
    /\ Called("translate_text") =>
           TranscribeOK /\ Resolved /\ target # detected
    /\ (TranscribeOK /\ Resolved /\ pc # "l92" /\ target # detected) =>
           Called("translate_text")
    /\ (Resolved /\ target = detected) =>
           /\ ~Called("translate_text") /\ tpc = "none" /\ calls = 0
           /\ translated = transcribed
           /\ Called("text_to_speech") => s_text = transcribed
           /\ HasReturned => ret[3] = transcribed

C3_Witness ==
    /\ pc = "returned" /\ Resolved /\ target = detected
    /\ Called("text_to_speech") /\ ret[3] = <<"a", "A">>

\* C4: translate_text, given empty or whitespace-only text, returns
\* "[Translation error] Empty input text" for every destination language
\* and never calls the remote translation service.
C4_EmptyInputNoRemoteCall ==
    Strip(t_text) = <<>> =>
        /\ calls = 0 /\ sleeps = 0
        /\ tpc \in {"entry", "returned"}
        /\ tpc = "returned" => t_ret = EmptyInputMsg

C4_Witness ==
    /\ tpc = "returned" /\ t_text = <<" ">> /\ t_dest = <<"fr">>
    /\ t_ret = EmptyInputMsg

\* The first remote result, trimmed and lower-cased, equals the input.
FirstSame ==
    /\ firstResult # NoResult /\ firstResult # None
    /\ Lower(Strip(firstResult)) = Lower(Strip(t_text))

FirstDiffers == firstResult # NoResult /\ ~FirstSame

\* C5: for non-empty text translate_text calls the remote service exactly
\* once when the first result differs from the input and exactly twice (one
\* sleep, one retry, never a third call) when it is the same up to case and
\* surrounding whitespace; whenever translate_text returns text equal to its
\* input the retry has been performed and the value returned is the result
\* of the last call.
C5_RetryBeforeEqualText ==
    (tpc = "returned" /\ t_text # <<>>) =>
        /\ calls <= 2
        /\ FirstDiffers => (calls = 1 /\ sleeps = 0)
        /\ FirstSame => (calls = 2 /\ sleeps = 1)
        /\ t_ret = t_text => (calls = 2 /\ sleeps = 1 /\ t_ret = lastResult)

\* C6, as claimed: after a synthesis failure the result is
\* (transcript, detected, translated, None) and the synthesis error text
\* appears in no element of it.
C6_ErrorTextInNoElement ==
    (HasReturned /\ TTSFailed) =>
        /\ ret = <<transcribed, detected, Stage3Text, None>>
        /\ \A i \in 1..4 : ~Occurs(audio_output, ret[i])

\* C6, amended: after a synthesis failure the result is
\* (transcript, detected, translated, None): the first three elements are
\* the earlier stages' values, the audio path is None, and the synthesis
\* error text appears in the tuple only where the transcript or the
\* translated text itself already contains it.
C6_SynthesisFailureNullPath ==
    (HasReturned /\ TTSFailed) =>
        /\ ret = <<transcribed, detected, Stage3Text, None>>
        /\ ret[4] = None /\ ret[4] # audio_output
        /\ \A i \in 1..4 : Occurs(audio_output, ret[i]) =>
              \/ i = 1 /\ Occurs(audio_output, transcribed)
              \/ i = 3 /\ Occurs(audio_output, Stage3Text)

C6_Witness ==
    /\ pc = "returned" /\ TTSFailed /\ Called("translate_text")
    /\ ret[3] = <<"a">> /\ ret[4] = None /\ audio_output = Sentinel(TT, <<"a">>)

\* C7: when translation failed, pipeline_translate returns
\* (transcript, detected, sentinel, None) with the Translator's
\* "[Translation error]" sentinel third, and text_to_speech is not invoked:
\* no output audio file is created.
C7_TranslationFailureShortCircuits ==
    TranslateFailed =>
        /\ pc \in {"l95", "returned", "idle"}
        /\ ~Called("text_to_speech") /\ ~mp3Created
        /\ translated = t_ret
        /\ pc # "l95" => ret = <<transcribed, detected, t_ret, None>>

C7_Witness ==
    /\ pc = "returned" /\ TranslateFailed /\ calls = 2
    /\ ret[3] = Sentinel(TE, <<>>)

\* C8: no component ends by raising: translate_text always returns text or
\* a sentinel, and pipeline_translate always returns a 4-tuple.
C8_NoExceptionCrossesBoundary ==
    /\ pc # "raised"
    /\ tpc = "returned" => t_ret # None

\* The message of the first stage that failed, when pipeline_translate
\* short-circuited on a failure.
ShortCircuited == audio_file = None \/ TranscribeFailed \/ TranslateFailed

FirstFailure ==
    IF audio_file = None THEN NoAudioMsg
    ELSE IF TranscribeFailed THEN transcribed
    ELSE t_ret

\* C9: whenever pipeline_translate short-circuits on a failed stage (no
\* audio, transcription failure, translation failure) the page shows that
\* stage's message as an error banner and no "Translation Complete" banner.
C9_ShortCircuitShowsErrorBanner ==
    (pc = "idle" /\ banner # "none" /\ ShortCircuited) =>
        /\ banner = "error"
        /\ shown = FirstFailure

\* C10: in one run of pipeline_translate the stages run in the order
\* Transcriber, Language Detector, Translator, Speech Synthesizer, each at
\* most once and never overlapping; a stage is invoked only after the
\* earlier stages have returned, none is invoked without audio, and none is
\* invoked after a stage whose result made the orchestrator short-circuit.
C10_StagesStrictlySequential ==
    /\ audio_file = None => trace = <<>>
    /\ \A i \in 1..Len(trace) :
          IF i % 2 = 1
          THEN trace[i].ev = "call"
          ELSE trace[i] = Ret(trace[i - 1].st)
    /\ \A i, j \in 1..Len(trace) :
          (i < j /\ trace[i].ev = "call" /\ trace[j].ev = "call") =>
              StageIdx(trace[i].st) < StageIdx(trace[j].st)
    /\ Called("detect_language") => Returned("transcribe_audio")
    /\ Called("translate_text") => Returned("detect_language")
    /\ Called("text_to_speech") =>
          /\ Returned("detect_language")
          /\ Called("translate_text") => Returned("translate_text")
    /\ tpc \in {"entry", "l51", "l52", "l53", "l55"} =>
          trace[Len(trace)] = Call("translate_text")
    /\ TranscribeFailed => Len(trace) = 2
    /\ TranslateFailed => trace[Len(trace)] = Ret("translate_text")
    /\ (Resolved /\ pc # "l92" /\ StartsWith(translated, TE)) =>
          ~Called("text_to_speech")
    /\ pc \in {"returned", "raised", "idle"} => Len(trace) % 2 = 0

C10_Witness ==
    /\ pc = "returned" /\ Len(trace) = 8
    /\ trace[7] = Call("text_to_speech") /\ calls = 2

====
